---- MODULE Spec2Model ----
(***************************************************************************)
(* Honey & Bees Store API (src/main.py, src/schemas.py).                   *)
(*                                                                         *)
(* Encoding of Python values:                                              *)
(*   - a dict or a JSON object is a function from its keys; an absent key  *)
(*     is absent from the DOMAIN;                                          *)
(*   - a value that may be None (Optional[...] fields, the result of       *)
(*     dict.get without a default) is a sequence of length <= 1:           *)
(*     <<>> is None and <<v>> is the value v;                              *)
(*   - money is counted in ticks of 1/800 dollar, so that a cent is 8      *)
(*     ticks and 1/8 dollar (exactly representable as a binary float) is   *)
(*     100 ticks: 12.99 is 10392, 5.00 is 4000, 0.125 is 100;              *)
(*   - a rating is counted in tenths: 4.8 is 48;                           *)
(*   - an e-mail address is the sequence of its characters.                *)
(***************************************************************************)
EXTENDS Integers, Sequences, FiniteSets, TLC

VARIABLES
    env,         \* os.environ: which of DATABASE_URL / DATABASE_NAME are set
    products,    \* the store's "product" collection, in insertion order
    orders,      \* the store's "order" collection, in insertion order
    pc,          \* position of each seed_products invocation
    idx,         \* seed_products: index in `defaults` of the next write
    storeCalls,  \* persistence calls issued by the last step, with outcome
    response     \* the HTTP response sent by the last step, if any

vars == <<env, products, orders, pc, idx, storeCalls, response>>

\* ------------------------------------------------------------------ bounds

\* Records written by POST /api/products and POST /api/orders together.
MaxWrites == 1

\* Concurrent invocations of seed_products.
Procs == {1, 2}

\* ---------------------------------------------------------------- helpers

Get(d, k, default) == IF k \in DOMAIN d THEN d[k] ELSE default

Min(a, b) == IF a < b THEN a ELSE b

IsPrefix(s, t) == Len(s) <= Len(t) /\ SubSeq(t, 1, Len(s)) = s

RECURSIVE SumSeq(_)
SumSeq(s) == IF s = <<>> THEN 0 ELSE Head(s) + SumSeq(Tail(s))

\* ---------------------------------------------------------- schemas.py

DefaultRating == 48
DefaultStockQty == 50
MaxRating == 50

\* EmailStr: one "@", a non-empty local part, a dotted domain.
IsEmail(s) ==
    /\ Cardinality({i \in 1..Len(s) : s[i] = "@"}) = 1
    /\ LET at == CHOOSE i \in 1..Len(s) : s[i] = "@"
       IN  /\ at > 1
           /\ at < Len(s)
           /\ s[at + 1] # "."
           /\ s[Len(s)] # "."
           /\ \E j \in (at + 1)..Len(s) : s[j] = "."

\* ProductFieldsOk without the ge=0 bound on price.
ProductFieldsNoPriceBound(p) ==
    /\ "title" \in DOMAIN p
    /\ "price" \in DOMAIN p
    /\ "category" \in DOMAIN p
    /\ \A r \in {Get(p, "rating", <<>>)} :
           r # <<>> => (r[1] >= 0 /\ r[1] <= MaxRating)
    /\ \A q \in {Get(p, "stock_qty", <<>>)} : q # <<>> => q[1] >= 0

\* Product's field constraints (required fields, ge / le bounds).
ProductFieldsOk(p) ==
    /\ "title" \in DOMAIN p
    /\ "price" \in DOMAIN p /\ p["price"] >= 0
    /\ "category" \in DOMAIN p
    /\ \A r \in {Get(p, "rating", <<>>)} :
           r # <<>> => (r[1] >= 0 /\ r[1] <= MaxRating)
    /\ \A q \in {Get(p, "stock_qty", <<>>)} : q # <<>> => q[1] >= 0

\* Product(**p).model_dump(): every field, defaults applied to absent ones.
ProductModel(p) ==
    [title       |-> p["title"],
     description |-> Get(p, "description", <<>>),
     price       |-> p["price"],
     category    |-> p["category"],
     in_stock    |-> Get(p, "in_stock", TRUE),
     image       |-> Get(p, "image", <<>>),
     rating      |-> Get(p, "rating", <<DefaultRating>>),
     stock_qty   |-> Get(p, "stock_qty", <<DefaultStockQty>>)]

\* OrderItem's field constraints.
OrderItemOk(it) ==
    /\ {"product_id", "title", "unit_price", "quantity"} \subseteq DOMAIN it
    /\ it["unit_price"] >= 0
    /\ it["quantity"] >= 1

\* CreateOrder's field constraints; a field it does not declare ("total")
\* is ignored.
CreateOrderFieldsOk(o) ==
    /\ {"customer_name", "customer_email", "shipping_address", "items"}
           \subseteq DOMAIN o
    /\ IsEmail(o["customer_email"])
    /\ \A i \in 1..Len(o["items"]) : OrderItemOk(o["items"][i])

\* CreateOrder(**o).model_dump(): the declared fields only.
CreateOrderModel(o) ==
    [customer_name    |-> o["customer_name"],
     customer_email   |-> o["customer_email"],
     shipping_address |-> o["shipping_address"],
     items            |-> o["items"],
     notes            |-> Get(o, "notes", <<>>)]

\* -------------------------------------------------- database (not in src/)

\* The connection handle: set up at import when both settings are present.
db == IF env["DATABASE_URL"] /\ env["DATABASE_NAME"] THEN "client" ELSE "None"

\* The identifier the store assigns to the next record of a collection:
\* unique, as no record is ever removed.
NewId(name, coll) == <<name, Len(coll) + 1>>

\* create_document(collection_name, data) on the contents `coll` of the
\* collection `name`; `up` is whether the store answers this call.
create_document(name, coll, data, up) ==
    IF db = "None" \/ ~up
    THEN [ok |-> FALSE, id |-> <<name, 0>>, docs |-> coll]
    ELSE [ok |-> TRUE, id |-> NewId(name, coll),
          docs |-> Append(coll, data @@ ("_id" :> NewId(name, coll)))]

\* get_documents(collection_name, limit); limit 0 stands for limit=None.
get_documents(coll, limit, up) ==
    IF db = "None" \/ ~up
    THEN [ok |-> FALSE, docs |-> <<>>]
    ELSE [ok |-> TRUE,
          docs |-> IF limit = 0 THEN coll
                   ELSE SubSeq(coll, 1, Min(limit, Len(coll)))]

\* db.list_collection_names(): `others` collections that no endpoint uses,
\* then the collections the endpoints have written to.
list_collection_names(others) ==
    [i \in 1..others |-> <<"other", i>>]
        \o (IF products # <<>> THEN << <<"product", 0>> >> ELSE <<>>)
        \o (IF orders # <<>> THEN << <<"order", 0>> >> ELSE <<>>)

\* ------------------------------------------------------------- main.py

NoResponse == [endpoint |-> "none", status |-> 0, body |-> <<>>]

Respond(endpoint, status, body) ==
    [endpoint |-> endpoint, status |-> status, body |-> body]

Call(op, collection, ok) == [op |-> op, collection |-> collection, ok |-> ok]

\* raise HTTPException(status_code=500, detail=str(e))
ServerError(endpoint, detail) ==
    Respond(endpoint, 500, [detail |-> detail])

\* FastAPI's answer to a body that fails validation.
ValidationError(endpoint) == Respond(endpoint, 422, [detail |-> "validation"])

\* ---- GET /

read_root == Respond("GET /", 200,
                     [message |-> "Honey & Bees Store Backend is running"])

ReadRoot ==
    /\ response' = read_root
    /\ storeCalls' = <<>>
    /\ UNCHANGED <<env, products, orders, pc, idx>>

\* ---- GET /test

MaxListedCollections == 10
\* Numbers of collections in the database that no endpoint uses.
OtherCollectionCounts == {0, 12}

\* test_database with the probe's exception left to propagate.
test_database_propagating(up, others) ==
    IF db # "None" /\ ~up
    THEN ServerError("GET /test", "StorageError")
    ELSE Respond("GET /test", 200,
                 [backend |-> "Running",
                  database |-> IF db # "None" THEN "Connected & Working"
                               ELSE "Available but not initialized",
                  database_url |-> IF env["DATABASE_URL"] THEN "Set" ELSE "Not Set",
                  database_name |-> IF env["DATABASE_NAME"] THEN "Set" ELSE "Not Set",
                  connection_status |-> IF db # "None" THEN "Connected"
                                        ELSE "Not Connected",
                  collections |->
                      IF db # "None"
                      THEN SubSeq(list_collection_names(others), 1,
                                  Min(MaxListedCollections,
                                      Len(list_collection_names(others))))
                      ELSE <<>>])

\* The dict built by test_database; `up` is whether the store answers
\* db.list_collection_names(), which raises when it does not.
test_database(up, others) ==
    LET names == list_collection_names(others)
        probed ==
            IF db # "None"
            THEN IF up
                 THEN [database |-> "Connected & Working",
                       connection_status |-> "Connected",
                       collections |->
                           SubSeq(names, 1, Min(MaxListedCollections, Len(names)))]
                 ELSE [database |-> "Connected but Error",
                       connection_status |-> "Connected",
                       collections |-> <<>>]
            ELSE [database |-> "Available but not initialized",
                  connection_status |-> "Not Connected",
                  collections |-> <<>>]
    IN  Respond("GET /test", 200,
                [backend |-> "Running",
                 database |-> probed.database,
                 database_url |-> IF env["DATABASE_URL"] THEN "Set" ELSE "Not Set",
                 database_name |-> IF env["DATABASE_NAME"] THEN "Set" ELSE "Not Set",
                 connection_status |-> probed.connection_status,
                 collections |-> probed.collections])

TestDatabase ==
    \E up \in BOOLEAN, others \in OtherCollectionCounts :
        /\ response' = test_database(up, others)
        /\ storeCalls' = IF db # "None"
                         THEN <<Call("list_collection_names", "", up)>>
                         ELSE <<>>
        /\ UNCHANGED <<env, products, orders, pc, idx>>

\* ---- GET /api/products

CoercionStockQty == 10

\* The Product(...) built from one raw record d. float(None) and int(None)
\* raise TypeError; title=None fails validation as a missing title does.
CoerceProduct(d) ==
    LET rating == Get(d, "rating", <<DefaultRating>>)
        stock_qty == Get(d, "stock_qty", <<CoercionStockQty>>)
        kw == [k \in ({"title"} \cap DOMAIN d)
                       \cup {"description", "price", "category", "in_stock",
                             "image", "rating", "stock_qty"} |->
                 CASE k = "title" -> d["title"]
                   [] k = "description" -> Get(d, "description", <<>>)
                   [] k = "price" -> Get(d, "price", 0)
                   [] k = "category" -> Get(d, "category", "honey")
                   [] k = "in_stock" -> Get(d, "in_stock", TRUE)
                   [] k = "image" -> Get(d, "image", <<>>)
                   [] k = "rating" -> rating
                   [] k = "stock_qty" -> stock_qty]
    IN  IF rating = <<>> \/ stock_qty = <<>>
        THEN [ok |-> FALSE, error |-> "TypeError"]
        ELSE IF ~ProductFieldsOk(kw)
        THEN [ok |-> FALSE, error |-> "ValidationError"]
        ELSE [ok |-> TRUE, value |-> ProductModel(kw)]

\* list_products answering an empty list when the store fails.
list_products_swallowing(r) ==
    IF ~r.ok
    THEN Respond("GET /api/products", 200, <<>>)
    ELSE LET cs == [i \in 1..Len(r.docs) |-> CoerceProduct(r.docs[i])]
             bad == {i \in 1..Len(cs) : ~cs[i].ok}
         IN  IF bad # {}
             THEN ServerError("GET /api/products",
                              cs[CHOOSE i \in bad : \A j \in bad : i <= j].error)
             ELSE Respond("GET /api/products", 200,
                          [i \in 1..Len(cs) |-> cs[i].value])

\* list_products on the result r of get_documents("product").
list_products(r) ==
    IF ~r.ok
    THEN ServerError("GET /api/products", "StorageError")
    ELSE LET cs == [i \in 1..Len(r.docs) |-> CoerceProduct(r.docs[i])]
             bad == {i \in 1..Len(cs) : ~cs[i].ok}
         IN  IF bad # {}
             THEN ServerError("GET /api/products",
                              cs[CHOOSE i \in bad : \A j \in bad : i <= j].error)
             ELSE Respond("GET /api/products", 200,
                          [i \in 1..Len(cs) |-> cs[i].value])

ListProducts ==
    \E up \in BOOLEAN :
        LET r == get_documents(products, 0, up)
        IN  /\ response' = list_products(r)
            /\ storeCalls' = <<Call("get_documents", "product", r.ok)>>
            /\ UNCHANGED <<env, products, orders, pc, idx>>

\* ---- POST /api/products

\* Request bodies a client sends: one that the schema accepts (rating is
\* Optional, so null is allowed), one without price, one with price -1.
ProductPayloads ==
    { [title |-> "Gift Box", price |-> 20000, category |-> "gifts",
       rating |-> <<>>],
      [title |-> "No Price", category |-> "honey"],
      [title |-> "Refund", price |-> -800, category |-> "honey"] }

\* Records in the product collection written by POST /api/products.
Created == {i \in 1..Len(products) :
               \E p \in ProductPayloads : products[i]["title"] = p["title"]}

CreateProduct(payload) ==
    IF ~ProductFieldsOk(payload)
    THEN /\ response' = ValidationError("POST /api/products")
         /\ storeCalls' = <<>>
         /\ UNCHANGED <<env, products, orders, pc, idx>>
    ELSE /\ Cardinality(Created) + Len(orders) < MaxWrites
         /\ \E up \in BOOLEAN :
                LET r == create_document("product", products, ProductModel(payload), up)
                IN  /\ products' = r.docs
                    /\ storeCalls' = <<Call("create_document", "product", r.ok)>>
                    /\ response' =
                           IF r.ok
                           THEN Respond("POST /api/products", 201,
                                        [id |-> r.id, message |-> "Product created"])
                           ELSE ServerError("POST /api/products", "StorageError")
         /\ UNCHANGED <<env, orders, pc, idx>>

\* ---- POST /api/seed

defaults ==
    << [title |-> "Wildflower Honey",
        description |-> <<"Raw, unfiltered wildflower honey with rich floral notes.">>,
        price |-> 10392, category |-> "honey", in_stock |-> TRUE,
        image |-> <<"https://images.unsplash.com/photo-1519681393784-d120267933ba">>,
        rating |-> <<49>>, stock_qty |-> <<120>>],
       [title |-> "Beeswax Candles (Set of 3)",
        description |-> <<"Hand-poured 100% beeswax candles with natural honey aroma.">>,
        price |-> 14800, category |-> "beeswax", in_stock |-> TRUE,
        image |-> <<"https://images.unsplash.com/photo-1505575972945-381d50a4ac7b">>,
        rating |-> <<47>>, stock_qty |-> <<80>>],
       [title |-> "Propolis Tincture",
        description |-> <<"High-potency propolis extract for immunity support.">>,
        price |-> 17600, category |-> "propolis", in_stock |-> TRUE,
        image |-> <<"https://images.unsplash.com/photo-1517686469429-dc1c37a393f5">>,
        rating |-> <<46>>, stock_qty |-> <<60>>],
       [title |-> "Bee Pollen Granules",
        description |-> <<"Nutrient-rich bee pollen harvested sustainably.">>,
        price |-> 12600, category |-> "pollen", in_stock |-> TRUE,
        image |-> <<"https://images.unsplash.com/photo-1505577058444-a3dab90d4253">>,
        rating |-> <<48>>, stock_qty |-> <<95>>] >>

\* SeedCheck without the `if existing` return.
SeedCheckUnguarded(p) ==
    /\ pc[p] = "idle"
    /\ \E up \in BOOLEAN :
           LET r == get_documents(products, 1, up)
           IN  /\ storeCalls' = <<Call("get_documents", "product", r.ok)>>
               /\ IF ~r.ok
                  THEN /\ response' = ServerError("POST /api/seed", "StorageError")
                       /\ UNCHANGED <<pc, idx>>
                  ELSE /\ response' = NoResponse
                       /\ pc' = [pc EXCEPT ![p] = "insert"]
                       /\ idx' = [idx EXCEPT ![p] = 1]
    /\ UNCHANGED <<env, products, orders>>

\* existing = get_documents("product", limit=1); if existing: return ...
SeedCheck(p) ==
    /\ pc[p] = "idle"
    /\ \E up \in BOOLEAN :
           LET r == get_documents(products, 1, up)
           IN  /\ storeCalls' = <<Call("get_documents", "product", r.ok)>>
               /\ IF ~r.ok
                  THEN /\ response' = ServerError("POST /api/seed", "StorageError")
                       /\ UNCHANGED <<pc, idx>>
                  ELSE IF r.docs # <<>>
                  THEN /\ response' = Respond("POST /api/seed", 201,
                                              [message |-> "Products already exist"])
                       /\ UNCHANGED <<pc, idx>>
                  ELSE /\ response' = NoResponse
                       /\ pc' = [pc EXCEPT ![p] = "insert"]
                       /\ idx' = [idx EXCEPT ![p] = 1]
    /\ UNCHANGED <<env, products, orders>>

\* SeedInsert skipping a default whose title is already stored.
SeedInsertGuarded(p) ==
    /\ pc[p] = "insert"
    /\ \E up \in BOOLEAN :
           LET r == create_document("product", products, defaults[idx[p]], up)
               present == \E i \in 1..Len(products) :
                              products[i]["title"] = defaults[idx[p]]["title"]
           IN  /\ storeCalls' = <<Call("create_document", "product", r.ok)>>
               /\ products' = IF present THEN products ELSE r.docs
               /\ IF ~r.ok
                  THEN /\ response' = ServerError("POST /api/seed", "StorageError")
                       /\ pc' = [pc EXCEPT ![p] = "idle"]
                       /\ idx' = [idx EXCEPT ![p] = 0]
                  ELSE IF idx[p] = Len(defaults)
                  THEN /\ response' = Respond("POST /api/seed", 201,
                                              [message |-> "Seeded default products"])
                       /\ pc' = [pc EXCEPT ![p] = "idle"]
                       /\ idx' = [idx EXCEPT ![p] = 0]
                  ELSE /\ response' = NoResponse
                       /\ idx' = [idx EXCEPT ![p] = idx[p] + 1]
                       /\ UNCHANGED pc
    /\ UNCHANGED <<env, orders>>

\* SeedInsert removing the defaults of this call when a write fails.
SeedInsertRollingBack(p) ==
    /\ pc[p] = "insert"
    /\ \E up \in BOOLEAN :
           LET r == create_document("product", products, defaults[idx[p]], up)
           IN  /\ storeCalls' = <<Call("create_document", "product", r.ok)>>
               /\ IF ~r.ok
                  THEN /\ products' = SubSeq(products, 1, Len(products) - (idx[p] - 1))
                       /\ response' = ServerError("POST /api/seed", "StorageError")
                       /\ pc' = [pc EXCEPT ![p] = "idle"]
                       /\ idx' = [idx EXCEPT ![p] = 0]
                  ELSE IF idx[p] = Len(defaults)
                  THEN /\ products' = r.docs
                       /\ response' = Respond("POST /api/seed", 201,
                                              [message |-> "Seeded default products"])
                       /\ pc' = [pc EXCEPT ![p] = "idle"]
                       /\ idx' = [idx EXCEPT ![p] = 0]
                  ELSE /\ products' = r.docs
                       /\ response' = NoResponse
                       /\ idx' = [idx EXCEPT ![p] = idx[p] + 1]
                       /\ UNCHANGED pc
    /\ UNCHANGED <<env, orders>>

\* One turn of `for p in defaults: create_document("product", p)`, and the
\* return that follows the last one.
SeedInsert(p) ==
    /\ pc[p] = "insert"
    /\ \E up \in BOOLEAN :
           LET r == create_document("product", products, defaults[idx[p]], up)
           IN  /\ storeCalls' = <<Call("create_document", "product", r.ok)>>
               /\ products' = r.docs
               /\ IF ~r.ok
                  THEN /\ response' = ServerError("POST /api/seed", "StorageError")
                       /\ pc' = [pc EXCEPT ![p] = "idle"]
                       /\ idx' = [idx EXCEPT ![p] = 0]
                  ELSE IF idx[p] = Len(defaults)
                  THEN /\ response' = Respond("POST /api/seed", 201,
                                              [message |-> "Seeded default products"])
                       /\ pc' = [pc EXCEPT ![p] = "idle"]
                       /\ idx' = [idx EXCEPT ![p] = 0]
                  ELSE /\ response' = NoResponse
                       /\ idx' = [idx EXCEPT ![p] = idx[p] + 1]
                       /\ UNCHANGED pc
    /\ UNCHANGED <<env, orders>>

\* ---- POST /api/orders

\* round(x, 2) of a float whose value is exactly x ticks: the nearest cent,
\* a tie going to the even cent.
Round2(x) ==
    LET cents == x \div 8
        rest == x % 8
    IN  IF rest < 4 THEN 8 * cents
        ELSE IF rest > 4 THEN 8 * (cents + 1)
        ELSE IF cents % 2 = 0 THEN 8 * cents
        ELSE 8 * (cents + 1)

\* order_total cutting the sum to whole cents instead of rounding it.
order_total_truncating(items) ==
    8 * (SumSeq([i \in 1..Len(items) |->
                    items[i]["unit_price"] * items[i]["quantity"]]) \div 8)

\* round(sum(item.unit_price * item.quantity for item in order.items), 2)
order_total(items) ==
    Round2(SumSeq([i \in 1..Len(items) |->
                      items[i]["unit_price"] * items[i]["quantity"]]))

Item(product_id, title, unit_price, quantity) ==
    [product_id |-> product_id, title |-> title,
     unit_price |-> unit_price, quantity |-> quantity]

OrderBody(email, items) ==
    [customer_name |-> "Ada", customer_email |-> email,
     shipping_address |-> "1 Hive Road", items |-> items]

GoodEmail == <<"a", "d", "a", "@", "h", "i", "v", "e", ".", "i", "o">>
BadEmail == <<"n", "o", "t", "-", "a", "n", "-", "e", "m", "a", "i", "l">>

ExampleItems == << Item("1", "Wildflower Honey", 10392, 2),
                   Item("unknown", "Candle", 4000, 1) >>

\* Request bodies a client sends.
OrderPayloads ==
    { OrderBody(GoodEmail, <<>>),
      OrderBody(GoodEmail, ExampleItems),
      OrderBody(GoodEmail, ExampleItems) @@ ("total" :> 800),
      OrderBody(GoodEmail, << Item("1", "Sample", 100, 1) >>),
      OrderBody(GoodEmail, << Item("1", "Sample", 350, 1) >>),
      OrderBody(BadEmail, ExampleItems),
      OrderBody(GoodEmail, << Item("1", "Sample", 100, 0) >>),
      OrderBody(GoodEmail, << Item("1", "Sample", -800, 1) >>) }

\* CreateOrder taking one unit off the stock of the first product.
CreateOrderDecrementing(payload) ==
    IF ~CreateOrderFieldsOk(payload)
    THEN /\ response' = ValidationError("POST /api/orders")
         /\ storeCalls' = <<>>
         /\ UNCHANGED <<env, products, orders, pc, idx>>
    ELSE /\ Cardinality(Created) + Len(orders) < MaxWrites
         /\ \E up \in BOOLEAN :
                LET order == CreateOrderModel(payload)
                    order_doc == order @@ ("total" :> order_total(order.items))
                    r == create_document("order", orders, order_doc, up)
                    stocked == /\ r.ok
                               /\ products # <<>>
                               /\ "stock_qty" \in DOMAIN products[1]
                               /\ products[1]["stock_qty"] # <<>>
                IN  /\ orders' = r.docs
                    /\ products' =
                           IF stocked
                           THEN [products EXCEPT ![1]["stock_qty"] = <<@[1] - 1>>]
                           ELSE products
                    /\ storeCalls' = <<Call("create_document", "order", r.ok)>>
                    /\ response' =
                           IF r.ok
                           THEN Respond("POST /api/orders", 201,
                                        [id |-> r.id, message |-> "Order placed",
                                         total |-> order_doc["total"]])
                           ELSE ServerError("POST /api/orders", "StorageError")
         /\ UNCHANGED <<env, pc, idx>>

\* create_order: the total is computed from the items and written into the
\* dumped order before it is stored.
CreateOrder(payload) ==
    IF ~CreateOrderFieldsOk(payload)
    THEN /\ response' = ValidationError("POST /api/orders")
         /\ storeCalls' = <<>>
         /\ UNCHANGED <<env, products, orders, pc, idx>>
    ELSE /\ Cardinality(Created) + Len(orders) < MaxWrites
         /\ \E up \in BOOLEAN :
                LET order == CreateOrderModel(payload)
                    order_doc == order @@ ("total" :> order_total(order.items))
                    r == create_document("order", orders, order_doc, up)
                IN  /\ orders' = r.docs
                    /\ storeCalls' = <<Call("create_document", "order", r.ok)>>
                    /\ response' =
                           IF r.ok
                           THEN Respond("POST /api/orders", 201,
                                        [id |-> r.id, message |-> "Order placed",
                                         total |-> order_doc["total"]])
                           ELSE ServerError("POST /api/orders", "StorageError")
         /\ UNCHANGED <<env, products, pc, idx>>

\* ------------------------------------------------------- specification

\* A record written to the store before this process started, holding
\* only a title.
LegacyDoc == ("_id" :> <<"product", 0>>) @@ [title |-> "Heather Honey"]

Init ==
    /\ env \in [{"DATABASE_URL", "DATABASE_NAME"} -> BOOLEAN]
    /\ products \in IF db = "None" THEN {<<>>} ELSE {<<>>, <<LegacyDoc>>}
    /\ orders = <<>>
    /\ pc = [p \in Procs |-> "idle"]
    /\ idx = [p \in Procs |-> 0]
    /\ storeCalls = <<>>
    /\ response = NoResponse

Next ==
    \/ ReadRoot
    \/ TestDatabase
    \/ ListProducts
    \/ \E payload \in ProductPayloads : CreateProduct(payload)
    \/ \E p \in Procs : SeedCheck(p)
    \/ \E p \in Procs : SeedInsert(p)
    \/ \E payload \in OrderPayloads : CreateOrder(payload)

Spec == Init /\ [][Next]_vars

\* Requests handled one after the other: a request starts only when no
\* seed_products invocation is under way.
AllIdle == \A q \in Procs : pc[q] = "idle"

NextSeq ==
    \/ AllIdle /\ ReadRoot
    \/ AllIdle /\ TestDatabase
    \/ AllIdle /\ ListProducts
    \/ AllIdle /\ \E payload \in ProductPayloads : CreateProduct(payload)
    \/ AllIdle /\ \E p \in Procs : SeedCheck(p)
    \/ \E p \in Procs : SeedInsert(p)
    \/ AllIdle /\ \E payload \in OrderPayloads : CreateOrder(payload)

SpecSeq == Init /\ [][NextSeq]_vars

\* ------------------------------------------------------------- properties

\* The product collection after the first n defaults were written to an
\* empty collection.
SeededDocs(n) == [i \in 1..n |-> defaults[i] @@ ("_id" :> <<"product", i>>)]

SeededResponse ==
    Respond("POST /api/seed", 201, [message |-> "Seeded default products"])

ExistsResponse ==
    Respond("POST /api/seed", 201, [message |-> "Products already exist"])

Titles(docs) == {docs[i]["title"] : i \in 1..Len(docs)}

Count(docs, title) == Cardinality({i \in 1..Len(docs) : docs[i]["title"] = title})

\* C1: with requests handled one after the other, a seed call that answers
\* 'Seeded default products' leaves exactly the 4 defaults in the
\* collection, and a seed call made while a product exists ends at its
\* check, changes nothing and, if the store answers, returns
\* 'Products already exist'.
C1_SequentialSeed ==
    /\ [](response = SeededResponse => products = SeededDocs(4))
    /\ [][\A p \in Procs :
            (products # <<>> /\ SeedCheck(p)) =>
                /\ products' = products
                /\ pc' = pc
                /\ (storeCalls'[1].ok => response' = ExistsResponse)]_vars

\* C1 witness: a second seed call has answered 'Products already exist'
\* on the collection the first one filled.
C1_Witness == response = ExistsResponse /\ products = SeededDocs(4)

\* C2: an accepted order's stored total equals the returned total, is a
\* whole number of cents within half a cent of the sum of unit_price x
\* quantity over the request's items (30.98 for the example items, 0 for no
\* items), whatever total the request body carries.
C2_OrderTotal ==
    [][\A payload \in OrderPayloads :
          ( /\ response'.endpoint = "POST /api/orders"
            /\ response'.status = 201
            /\ CreateOrder(payload) ) =>
              LET stored == orders'[Len(orders')]
                  items == payload["items"]
                  exact == SumSeq([i \in 1..Len(items) |->
                              items[i]["unit_price"] * items[i]["quantity"]])
              IN  /\ Len(orders') = Len(orders) + 1
                  /\ stored["total"] = response'.body.total
                  /\ stored["total"] % 8 = 0
                  /\ stored["total"] - exact \in -4..4
                  /\ (items = ExampleItems => stored["total"] = 24784)
                  /\ (items = <<>> => stored["total"] = 0)]_vars

\* C2 witness: the example order is stored and answered with 30.98.
C2_Witness ==
    /\ response.endpoint = "POST /api/orders"
    /\ response.status = 201
    /\ response.body.total = 24784
    /\ orders # <<>>
    /\ orders[Len(orders)]["total"] = 24784
    /\ orders[Len(orders)]["items"] = ExampleItems

\* Whether the stored record d is what POST /api/products writes for the
\* request body payload.
WrittenFrom(d, payload) ==
    /\ DOMAIN d = DOMAIN ProductModel(payload) \cup {"_id"}
    /\ \A k \in DOMAIN ProductModel(payload) : d[k] = ProductModel(payload)[k]

\* C3: once a valid payload was stored by POST /api/products, every
\* GET /api/products that the store answers returns 200 with a product of
\* the payload's title, price and category.
C3_PostThenList ==
    [][\A payload \in ProductPayloads :
          ( /\ ProductFieldsOk(payload)
            /\ response'.endpoint = "GET /api/products"
            /\ \E i \in 1..Len(products) : WrittenFrom(products[i], payload)
            /\ ListProducts
            /\ storeCalls'[1].ok ) =>
              /\ response'.status = 200
              /\ \E j \in 1..Len(response'.body) :
                     /\ response'.body[j].title = payload["title"]
                     /\ response'.body[j].price = payload["price"]
                     /\ response'.body[j].category = payload["category"]]_vars

Rejected ==
    /\ response'.status \in 400..499
    /\ storeCalls' = <<>>
    /\ products' = products
    /\ orders' = orders

\* C4: a product body without price or with price < 0, and an order body
\* whose e-mail has no "@" or that has an item with quantity < 1 or
\* unit_price < 0, is answered with a 4xx status, with no persistence call
\* and both collections unchanged.
C4_InvalidRejected ==
    [][ /\ \A payload \in ProductPayloads :
              ( /\ ("price" \notin DOMAIN payload \/ payload["price"] < 0)
                /\ response'.endpoint = "POST /api/products"
                /\ CreateProduct(payload) ) => Rejected
        /\ \A payload \in OrderPayloads :
              ( /\ \/ \A i \in 1..Len(payload["customer_email"]) :
                          payload["customer_email"][i] # "@"
                   \/ \E i \in 1..Len(payload["items"]) :
                          \/ payload["items"][i]["quantity"] < 1
                          \/ payload["items"][i]["unit_price"] < 0
                /\ response'.endpoint = "POST /api/orders"
                /\ CreateOrder(payload) ) => Rejected ]_vars

\* C4 witness: a rejected request, on a store that holds products.
C4_Witness ==
    /\ response.status = 422
    /\ storeCalls = <<>>
    /\ products # <<>>

\* C5: GET / and GET /test can be served in every state; GET / answers 200
\* with the static message; GET /test answers 200 whatever its probe of the
\* connection does, with at most 10 collection names.
C5_Diagnostics ==
    /\ ENABLED ReadRoot
    /\ ENABLED TestDatabase
    /\ response.endpoint = "GET /" =>
           /\ response.status = 200
           /\ response.body.message = "Honey & Bees Store Backend is running"
    /\ response.endpoint = "GET /test" =>
           /\ response.status = 200
           /\ Len(response.body.collections) <= 10

\* C5 witness: GET /test answered although its probe of a configured store
\* failed.
C5_Witness ==
    /\ response.endpoint = "GET /test"
    /\ response.status = 200
    /\ storeCalls # <<>>
    /\ ~storeCalls[1].ok

ApiEndpoints == {"GET /api/products", "POST /api/products",
                 "POST /api/seed", "POST /api/orders"}

\* C6: when a persistence call of an API handler fails, it is the only
\* call of that step, the response is 500, and a seed call is over.
C6_FailureSurfaced ==
    /\ []((response.endpoint \in ApiEndpoints
             /\ \E i \in 1..Len(storeCalls) : ~storeCalls[i].ok) =>
            /\ Len(storeCalls) = 1
            /\ response.status = 500)
    /\ [][\A p \in Procs :
            ( /\ response'.endpoint = "POST /api/seed"
              /\ ~storeCalls'[1].ok
              /\ SeedCheck(p) \/ SeedInsert(p) ) =>
                /\ pc'[p] = "idle"
                /\ response'.status = 500
                /\ products' = products]_vars
    /\ [][(storeCalls' # <<>> /\ ~storeCalls'[1].ok) =>
             (products' = products /\ orders' = orders)]_vars
    /\ [](response.endpoint \in ApiEndpoints /\ response.status \in 200..299 =>
             \A i \in 1..Len(storeCalls) : storeCalls[i].ok)

\* C6 witness: a failed write of POST /api/orders, answered 500.
C6_Witness ==
    /\ response = ServerError("POST /api/orders", "StorageError")
    /\ storeCalls = <<Call("create_document", "order", FALSE)>>

\* C7: a seed call that is past its check writes its next default whenever
\* the store accepts the write, whatever the collection holds by then, the
\* same default written by another call included.
C7_UnguardedInsert ==
    [][\A p \in Procs :
          ( /\ pc[p] = "insert"
            /\ idx'[p] # idx[p]
            /\ storeCalls'[1].ok ) =>
              products' = Append(products,
                                 defaults[idx[p]] @@ ("_id" :> NewId("product", products)))]_vars

\* C7 witness: two seed calls both found the collection empty and both
\* wrote the defaults: 8 records, each default title twice.
C7_Witness ==
    /\ Len(products) = 8
    /\ \A k \in 1..Len(defaults) : Count(products, defaults[k]["title"]) = 2

\* C8: every step leaves the records already in the product and order
\* collections as they are and in place, and a POST /api/orders step
\* leaves the product collection unchanged.
C8_AppendOnly ==
    [][ /\ IsPrefix(products, products')
        /\ IsPrefix(orders, orders')
        /\ response'.endpoint = "POST /api/orders" => products' = products ]_vars

\* C8 witness: an order was placed on a store that holds products.
C8_Witness ==
    /\ response.endpoint = "POST /api/orders"
    /\ response.status = 201
    /\ orders # <<>>
    /\ products # <<>>

\* The value the schema layer gives field k of a Product body that omits it.
SchemaDefault(k) ==
    ProductModel([title |-> "t", price |-> 0, category |-> "c"])[k]

\* C9: in a 200 answer of GET /api/products, a field absent from the stored
\* record has the schema layer's default (in_stock, rating, stock_qty), and
\* an absent price or category is 0 or "honey".
C9_SameDefaults ==
    (response.endpoint = "GET /api/products" /\ response.status = 200) =>
        \A i \in 1..Len(products) :
            /\ \A k \in {"in_stock", "rating", "stock_qty"} \ DOMAIN products[i] :
                   response.body[i][k] = SchemaDefault(k)
            /\ "price" \notin DOMAIN products[i] => response.body[i].price = 0
            /\ "category" \notin DOMAIN products[i] =>
                   response.body[i].category = "honey"

\* C10: a failed write of a seed call ends it with 500 and leaves the
\* records it wrote in place; a seed call on a non-empty collection that the
\* store answers returns 'Products already exist' and writes nothing; and
\* when a seed call answers 'Seeded default products' every default is in
\* the collection.
C10_NoRollback ==
    /\ [][\A p \in Procs :
            ( /\ pc[p] = "insert"
              /\ idx'[p] # idx[p]
              /\ ~storeCalls'[1].ok ) =>
                /\ response' = ServerError("POST /api/seed", "StorageError")
                /\ products' = products
                /\ pc'[p] = "idle"]_vars
    /\ [][\A p \in Procs :
            ( /\ products # <<>>
              /\ pc[p] = "idle"
              /\ response'.endpoint = "POST /api/seed"
              /\ storeCalls'[1].ok
              /\ SeedCheck(p) ) =>
                /\ response' = ExistsResponse
                /\ products' = products
                /\ pc'[p] = "idle"]_vars
    /\ [](response = SeededResponse =>
             \A k \in 1..Len(defaults) : defaults[k]["title"] \in Titles(products))

\* C10 witness: only the first 1 to 3 defaults are stored, no seed call is
\* under way, and a later seed call has answered 'Products already exist'.
C10_Witness ==
    /\ \E k \in 1..3 : products = SeededDocs(k)
    /\ AllIdle
    /\ response = ExistsResponse

====
